---- MODULE Spec2Model ----
(***************************************************************************)
(* Model of the football bot's match monitor (src/main.py): the score      *)
(* cache of FootballDataAPI (previous_scores, announced_ft) and the        *)
(* match_monitor poll tick that reconciles the fetched matches against it  *)
(* and sends the goal and full-time announcements.                         *)
(*                                                                         *)
(* A tick is modelled at the granularity of its awaits: each feed request, *)
(* each loop iteration up to the next channel.send, and the outcome of     *)
(* each send is one step.  The entries of a fetched list are read by the   *)
(* code only when its loop reaches them, so the model keeps the number of  *)
(* entries still to be iterated (live_left, target_left) and draws the     *)
(* content of an entry in the step that iterates over it.                  *)
(***************************************************************************)
EXTENDS Integers, Sequences, FiniteSets, TLC

\* ------------------------------------------------------------------ bounds

\* Highest home score and highest away score the feed reports.
MaxHome == 2

MaxAway == 1

\* Largest number of entries one fetched list (live or target) holds in total.
MaxBatch == 2

\* Largest number of consecutive HTTP 429 answers to one request.
MaxAttempts == 1

\* Largest number of entries in the body of one answer that is parsed.
MaxRaw == 3


\* The on_ready handlers that may be in flight together: the one of the first
\* READY event and the one of a reconnect.
Handlers == {1, 2}

\* --------------------------------------------------------- program constants

\* len(COMPETITIONS): laliga, epl, ucl.
NumCompetitions == 3

\* Match ids of fixtures in which Real Madrid or Barcelona plays, and of a
\* fixture in which neither does.
TargetIds == {1, 2}
OtherIds == {3}
MatchIds == TargetIds \cup OtherIds

HomeScores == 0 .. MaxHome
AwayScores == 0 .. MaxAway

\* Match.status as football-data.org reports it.
Statuses == {"SCHEDULED", "IN_PLAY", "PAUSED", "FINISHED"}

\* The value of `match` while no embed is being sent.
NoMatch == [id |-> 0, home |-> 0, away |-> 0, status |-> "NONE"]

\* A parsed Match (its fields that the monitor reads).
Match(i, h, a, st) == [id |-> i, home |-> h, away |-> a, status |-> st]

\* What get_live_matches can hold: the requests ask for status=IN_PLAY.
LiveMatches ==
    {Match(i, h, a, "IN_PLAY") : i \in TargetIds, h \in HomeScores, a \in AwayScores}
        \cup {Match(i, 0, 0, "IN_PLAY") : i \in OtherIds}

\* What get_target_team_matches can hold: any status, target teams only.
TargetMatches ==
    {Match(i, h, a, st) : i \in TargetIds, h \in HomeScores, a \in AwayScores, st \in Statuses}

\* Outcomes of one HTTP request in _get.
Responses == {"200", "429", "error", "exception"}

VARIABLES
    \* The program.
    previous_scores,  \* FootballDataAPI.previous_scores: match id -> <<home, away>>
    announced_ft,     \* FootballDataAPI.announced_ft: set of match ids
    pc,               \* where the match_monitor tick stands
    comp,             \* index of the competition being fetched (1..NumCompetitions)
    attempts,         \* 429 answers to the request in flight
    live_left,        \* entries of live_matches not yet iterated
    target_left,      \* entries of target_matches not yet iterated
    match,            \* the match whose embed is being sent, NoMatch otherwise
    old_score,        \* detect_goals' old_score for that match, NoScore otherwise
    \* History kept by every specification.
    fetch_ok,         \* some request of this tick was answered 200
    ft_sent,          \* full-time sends attempted for each id so far (saturates at 2)
    ft_skipped,       \* id of the last FINISHED entry this tick did not announce, 0 if none
    lost,             \* the match whose send raised in the tick just over, NoMatch otherwise
    \* History kept by SpecHistory only.
    watched,          \* one goal fingerprint sent earlier, NoFingerprint while none is picked
    goal_sent,        \* ids for which some goal send was attempted so far
    observed,         \* ids some iteration has processed so far
    first_seen,       \* ids that this tick processed and no earlier tick had
    \* History kept by SpecAbsence only.
    all_ok,           \* every request of this tick so far was answered 200
    present,          \* ids this tick has processed
    missed,           \* consecutive complete batches each id was absent from (up to 3)
    \* History kept by SpecReplay only.
    mode,             \* "record": this tick's batch is recorded; "replay": it is fed again
    rec_live,         \* the entries of live_matches the recorded tick iterated over
    rec_target,       \* the entries of target_matches the recorded tick iterated over
    rec_sizes,        \* <<len(live_matches), len(target_matches)>> of the recorded tick
    \* The bot's start-up, followed by SpecReady only.
    sync_completed,   \* _sync_completed
    tasks_started,    \* _tasks_started
    ready_pc,         \* where each on_ready handler stands, "none" while not running
    monitors,         \* match_monitor loop tasks running
    in_flight,        \* executions of the match_monitor body in flight (up to 2)
    \* The retry of _get, followed by SpecRetry only.
    sleeping,         \* _get is in its sleep(60) after a 429 answer
    \* History kept by SpecOrder only.
    last_event,       \* <<match id, kind>> of the last send of this tick, <<0, 0>> if none
    tick_goals,       \* ids for which this tick has attempted a goal send
    \* One call of get_matches_by_competition, followed by SpecParse only.
    raw,              \* data['matches'] of the answer
    parse_at,         \* index of the entry the parse loop has reached
    matches,          \* the list `matches` built so far
    \* A slash command, followed by SpecCommands only.
    cmd_pc,           \* where the handler of the command stands, "none" while none runs
    cmd_left,         \* feed requests the handler has still to make
    \* History kept by SpecChannel only.
    no_channel,       \* the last tick that fetched entries returned for lack of a channel
    \* History kept by SpecFail only.
    dropped,          \* entries the tick just over had not iterated when its send raised
    \* The configuration, and history kept by SpecStart only.
    api_key,          \* FOOTBALL_API_KEY is set: football_api is not None
    starts            \* calls of match_monitor.start() so far (up to 2)

store == <<previous_scores, announced_ft>>
tick_vars == <<pc, comp, attempts, live_left, target_left, match, old_score>>
base_hist == <<fetch_ok, ft_sent, ft_skipped, lost>>
history == <<watched, goal_sent, observed, first_seen>>
absence == <<all_ok, present, missed>>
replay == <<mode, rec_live, rec_target, rec_sizes>>
ready == <<sync_completed, tasks_started, ready_pc, monitors, in_flight>>
\* What the specifications of the tick alone leave as it is.
retry == <<sleeping>>
order == <<last_event, tick_goals>>
parse == <<raw, parse_at, matches>>
cmd == <<cmd_pc, cmd_left>>
chan == <<no_channel>>
fail == <<dropped>>
start == <<api_key, starts>>
later == <<ready, retry, order, parse, cmd, chan, fail, start>>
vars == <<previous_scores, announced_ft, pc, comp, attempts, live_left, target_left,
          match, old_score, fetch_ok, ft_sent, ft_skipped, lost,
          watched, goal_sent, observed, first_seen,
          all_ok, present, missed, mode, rec_live, rec_target, rec_sizes,
          sync_completed, tasks_started, ready_pc, monitors, in_flight,
          sleeping, last_event, tick_goals, raw, parse_at, matches,
          cmd_pc, cmd_left, no_channel, dropped, api_key, starts>>

\* ------------------------------------------------------- FootballDataAPI

\* Match.is_target_match.
IsTargetMatch(m) == m.id \in TargetIds

\* detect_goals: current_score.
CurrentScore(m) == <<m.home, m.away>>

\* The value of old_score while detect_goals has found no change.
NoScore == <<-1, -1>>

\* detect_goals: old_score, the baseline the score is compared with.
OldScore(ps, m) == IF m.id \in DOMAIN ps THEN ps[m.id] ELSE NoScore

\* detect_goals with a default baseline of (0, 0) for an unseen match
\* (previous_scores.get(match_id, (0, 0))): what C3 is checked to exclude.
DetectGoalsDefaultBaseline(ps, m) ==
    CurrentScore(m) # (IF m.id \in DOMAIN ps THEN ps[m.id] ELSE <<0, 0>>)

\* detect_goals that reports a change only when exactly one goal was added.
DetectGoalsSingleStep(ps, m) ==
    IF m.id \notin DOMAIN ps
    THEN FALSE
    ELSE (m.home - ps[m.id][1]) + (m.away - ps[m.id][2]) = 1

\* detect_goals: the value it returns.
DetectGoals(ps, m) ==
    IF m.id \notin DOMAIN ps
    THEN FALSE
    ELSE CurrentScore(m) # ps[m.id]

\* detect_goals that records a first sighting but not a changed score (the
\* update left to after the send): what C9 is checked to exclude.
DetectGoalsStoreNoUpdate(ps, m) ==
    IF m.id \notin DOMAIN ps
    THEN [i \in DOMAIN ps \cup {m.id} |-> IF i = m.id THEN CurrentScore(m) ELSE ps[i]]
    ELSE ps

\* detect_goals: previous_scores after the call.
DetectGoalsStore(ps, m) ==
    IF m.id \notin DOMAIN ps \/ CurrentScore(m) # ps[m.id]
    THEN [i \in DOMAIN ps \cup {m.id} |-> IF i = m.id THEN CurrentScore(m) ELSE ps[i]]
    ELSE ps

\* should_announce_ft: the value it returns.
ShouldAnnounceFt(aft, m) == m.status = "FINISHED" /\ m.id \notin aft

\* should_announce_ft without its announced_ft.add: what C5 is checked to exclude.
ShouldAnnounceFtStoreNoAdd(aft, m) == aft

\* should_announce_ft: announced_ft after the call.
ShouldAnnounceFtStore(aft, m) ==
    IF m.status = "FINISHED" /\ m.id \notin aft THEN aft \cup {m.id} ELSE aft

\* _get without its status check, returning the body of any answer: what C7 is
\* checked to exclude.
GetAnyStatus(resp, n) == n

\* _get: the number of matches in the body it returns when the request was
\* answered `resp` with a body listing n matches ({} has none).
Get(resp, n) == IF resp = "200" THEN n ELSE 0

\* get_matches_by_competition: the length of the list it returns.
GetMatchesByCompetition(resp, n) == Get(resp, n)

\* ------------------------------------------------------------------ state

ZeroCount == [i \in TargetIds |-> 0]

\* A goal announcement's fingerprint: (match id, home score, away score).
Fingerprint(m) == <<m.id, m.home, m.away>>
NoFingerprint == <<0, 0, 0>>

\* The store and the tick after construction, with their history.
InitTick ==
    /\ previous_scores = <<>>
    /\ announced_ft = {}
    /\ pc = "idle"
    /\ comp = 1
    /\ attempts = 0
    /\ live_left = 0
    /\ target_left = 0
    /\ match = NoMatch
    /\ old_score = NoScore
    /\ fetch_ok = FALSE
    /\ ft_sent = ZeroCount
    /\ ft_skipped = 0
    /\ lost = NoMatch
    /\ watched = NoFingerprint
    /\ goal_sent = {}
    /\ observed = {}
    /\ first_seen = {}
    /\ all_ok = TRUE
    /\ present = {}
    /\ missed = ZeroCount
    /\ mode = "off"
    /\ rec_live = <<>>
    /\ rec_target = <<>>
    /\ rec_sizes = <<0, 0>>
    /\ sleeping = FALSE
    /\ last_event = <<0, 0>>
    /\ tick_goals = {}
    /\ parse_at = 1
    /\ matches = <<>>
    /\ cmd_pc = "none"
    /\ cmd_left = 0
    /\ no_channel = FALSE
    /\ dropped = 0

\* The state in which on_ready has started match_monitor, no tick has run yet
\* and no on_ready handler is in flight.
Init ==
    /\ InitTick
    /\ raw = <<>>
    /\ api_key = TRUE
    /\ starts = 1
    /\ sync_completed = TRUE
    /\ tasks_started = TRUE
    /\ ready_pc = [i \in Handlers |-> "none"]
    /\ monitors = 1
    /\ in_flight = 0

\* The tick is over: its locals and the history of the tick are dropped.
TickOver ==
    /\ pc' = "idle"
    /\ comp' = 1
    /\ attempts' = 0
    /\ live_left' = 0
    /\ target_left' = 0
    /\ match' = NoMatch
    /\ old_score' = NoScore
    /\ fetch_ok' = FALSE
    /\ ft_skipped' = 0

\* ----------------------------------------------------------- match_monitor

\* A loop that fires on its interval whether or not the previous execution
\* has returned.
LoopFiresOnInterval(p) == TRUE

\* tasks.loop awaits the body before it schedules the next iteration: the
\* loop fires only when the previous execution has returned.
LoopMayFire(p) == p = "idle"

\* The loop fires: match_monitor starts and calls get_live_matches.
Tick ==
    /\ LoopMayFire(pc)
    /\ pc' = "fetch_live"
    /\ lost' = NoMatch
    /\ UNCHANGED <<comp, attempts, live_left, target_left, match, old_score>>
    /\ UNCHANGED <<store, fetch_ok, ft_sent, ft_skipped>>

\* _get: the request is answered 429; sleep 60 s and ask again.
GetRateLimited ==
    /\ pc \in {"fetch_live", "fetch_target"}
    /\ attempts < MaxAttempts
    /\ attempts' = attempts + 1
    /\ UNCHANGED <<pc, comp, live_left, target_left, match, old_score>>
    /\ UNCHANGED <<store, base_hist>>

\* get_live_matches: one competition's request is answered (not 429) with a
\* body of n matches.
FetchLive(resp, n) ==
    /\ pc = "fetch_live"
    /\ resp # "429"
    /\ live_left + n <= MaxBatch
    /\ live_left' = live_left + GetMatchesByCompetition(resp, n)
    /\ fetch_ok' = (fetch_ok \/ resp = "200")
    /\ attempts' = 0
    /\ IF comp < NumCompetitions
       THEN comp' = comp + 1 /\ pc' = pc
       ELSE comp' = 1 /\ pc' = "fetch_target"
    /\ UNCHANGED <<target_left, match, old_score>>
    /\ UNCHANGED <<store, ft_sent, ft_skipped, lost>>

\* get_target_team_matches for one league: its request is answered (not 429)
\* with a body of n matches of the target teams.
FetchTarget(resp, n) ==
    /\ pc = "fetch_target"
    /\ resp # "429"
    /\ target_left + n <= MaxBatch
    /\ target_left' = target_left + GetMatchesByCompetition(resp, n)
    /\ fetch_ok' = (fetch_ok \/ resp = "200")
    /\ attempts' = 0
    /\ IF comp < NumCompetitions
       THEN comp' = comp + 1 /\ pc' = pc
       ELSE comp' = 1 /\ pc' = "find_channel"
    /\ UNCHANGED <<live_left, match, old_score>>
    /\ UNCHANGED <<store, ft_sent, ft_skipped, lost>>

\* A tick that goes on to its loops whether or not it has a channel.
FindChannelProceeds(found) ==
    /\ pc = "find_channel"
    /\ pc' = "goal_loop"
    /\ UNCHANGED <<comp, attempts, live_left, target_left, match, old_score>>
    /\ UNCHANGED <<fetch_ok, ft_skipped>>
    /\ UNCHANGED <<store, ft_sent, lost>>

\* The search for a channel with send_messages and embed_links; without one
\* the tick returns.
FindChannel(found) ==
    /\ pc = "find_channel"
    /\ IF found
       THEN /\ pc' = "goal_loop"
            /\ UNCHANGED <<comp, attempts, live_left, target_left, match, old_score>>
            /\ UNCHANGED <<fetch_ok, ft_skipped>>
       ELSE TickOver
    /\ UNCHANGED <<store, ft_sent, lost>>

\* One iteration of `for match in live_matches`, up to the send.
GoalStep(m) ==
    /\ pc = "goal_loop"
    /\ live_left > 0
    /\ live_left' = live_left - 1
    /\ IF ~IsTargetMatch(m)
       THEN UNCHANGED <<pc, match, old_score, previous_scores>>
       ELSE /\ previous_scores' = DetectGoalsStore(previous_scores, m)
            /\ IF DetectGoals(previous_scores, m)
               THEN /\ pc' = "send_goal"
                    /\ match' = m
                    /\ old_score' = OldScore(previous_scores, m)
               ELSE UNCHANGED <<pc, match, old_score>>
    /\ UNCHANGED <<announced_ft, comp, attempts, target_left, base_hist>>

\* live_matches is exhausted: go on to the full-time loop.
GoalLoopEnd ==
    /\ pc = "goal_loop"
    /\ live_left = 0
    /\ pc' = "ft_loop"
    /\ UNCHANGED <<comp, attempts, live_left, target_left, match, old_score>>
    /\ UNCHANGED <<store, base_hist>>

\* One iteration of `for match in target_matches`, up to the send.
FtStep(m) ==
    /\ pc = "ft_loop"
    /\ target_left > 0
    /\ target_left' = target_left - 1
    /\ announced_ft' = ShouldAnnounceFtStore(announced_ft, m)
    /\ IF ShouldAnnounceFt(announced_ft, m)
       THEN /\ pc' = "send_ft"
            /\ match' = m
            /\ ft_sent' = [ft_sent EXCEPT ![m.id] = IF @ < 2 THEN @ + 1 ELSE @]
            /\ UNCHANGED ft_skipped
       ELSE /\ ft_skipped' = IF m.status = "FINISHED" THEN m.id ELSE ft_skipped
            /\ UNCHANGED <<pc, match, ft_sent>>
    /\ UNCHANGED <<previous_scores, comp, attempts, live_left, old_score, fetch_ok, lost>>

\* target_matches is exhausted: the tick returns.
FtLoopEnd ==
    /\ pc = "ft_loop"
    /\ target_left = 0
    /\ TickOver
    /\ UNCHANGED <<store, ft_sent, lost>>

\* channel.send returns: the loop goes on with the next entry.
SendOk ==
    /\ pc \in {"send_goal", "send_ft"}
    /\ pc' = IF pc = "send_goal" THEN "goal_loop" ELSE "ft_loop"
    /\ match' = NoMatch
    /\ old_score' = NoScore
    /\ UNCHANGED <<comp, attempts, live_left, target_left>>
    /\ UNCHANGED <<store, base_hist>>

\* A send that raises and is passed over: the loop goes on with the next entry.
SendFailContinues ==
    /\ pc \in {"send_goal", "send_ft"}
    /\ pc' = IF pc = "send_goal" THEN "goal_loop" ELSE "ft_loop"
    /\ match' = NoMatch
    /\ old_score' = NoScore
    /\ lost' = match
    /\ UNCHANGED <<comp, attempts, live_left, target_left>>
    /\ UNCHANGED <<store, fetch_ok, ft_sent, ft_skipped>>

\* channel.send raises: `except Exception` logs it and the tick returns.
SendFail ==
    /\ pc \in {"send_goal", "send_ft"}
    /\ TickOver
    /\ lost' = match
    /\ UNCHANGED <<store, ft_sent>>

\* ---------------------------------------------------------- specifications

\* Spec: the program with the history every specification keeps.
Quiet == UNCHANGED <<history, absence, replay, later>>

Next ==
    \/ Tick /\ Quiet
    \/ GetRateLimited /\ Quiet
    \/ \E resp \in Responses, n \in 0 .. MaxBatch : FetchLive(resp, n) /\ Quiet
    \/ \E resp \in Responses, n \in 0 .. MaxBatch : FetchTarget(resp, n) /\ Quiet
    \/ \E found \in BOOLEAN : FindChannel(found) /\ Quiet
    \/ \E m \in LiveMatches : GoalStep(m) /\ Quiet
    \/ GoalLoopEnd /\ Quiet
    \/ \E m \in TargetMatches : FtStep(m) /\ Quiet
    \/ FtLoopEnd /\ Quiet
    \/ SendOk /\ Quiet
    \/ SendFail /\ Quiet

Spec == Init /\ [][Next]_vars

\* SpecHistory: the same program, with the history of what was sent and
\* processed that the claims about whole runs are stated on.

\* The entry m was processed by a loop iteration.
HistoryEntry(m) ==
    /\ observed' = observed \cup {m.id}
    /\ first_seen' = IF m.id \in observed THEN first_seen ELSE first_seen \cup {m.id}

\* A goal send is attempted for m: it is remembered, and its fingerprint may
\* become the watched one while none is.
HistoryGoalSent(m) ==
    /\ goal_sent' = goal_sent \cup {m.id}
    /\ watched' \in IF watched = NoFingerprint
                    THEN {NoFingerprint, Fingerprint(m)}
                    ELSE {watched}

HistoryGoalStep(m) ==
    IF ~IsTargetMatch(m)
    THEN UNCHANGED history
    ELSE /\ HistoryEntry(m)
         /\ IF pc' = "send_goal"
            THEN HistoryGoalSent(m)
            ELSE UNCHANGED <<goal_sent, watched>>

HistoryFtStep(m) ==
    /\ HistoryEntry(m)
    /\ UNCHANGED <<goal_sent, watched>>

\* The tick is over: what it saw first is no longer new.
HistoryTickOver ==
    /\ first_seen' = {}
    /\ UNCHANGED <<watched, goal_sent, observed>>

NextHistory ==
    \/ Tick /\ Quiet
    \/ GetRateLimited /\ Quiet
    \/ \E resp \in Responses, n \in 0 .. MaxBatch : FetchLive(resp, n) /\ Quiet
    \/ \E resp \in Responses, n \in 0 .. MaxBatch : FetchTarget(resp, n) /\ Quiet
    \/ FindChannel(TRUE) /\ Quiet
    \/ FindChannel(FALSE) /\ HistoryTickOver /\ UNCHANGED <<absence, replay, later>>
    \/ \E m \in LiveMatches : GoalStep(m) /\ HistoryGoalStep(m) /\ UNCHANGED <<absence, replay, later>>
    \/ GoalLoopEnd /\ Quiet
    \/ \E m \in TargetMatches : FtStep(m) /\ HistoryFtStep(m) /\ UNCHANGED <<absence, replay, later>>
    \/ FtLoopEnd /\ HistoryTickOver /\ UNCHANGED <<absence, replay, later>>
    \/ SendOk /\ Quiet
    \/ SendFail /\ HistoryTickOver /\ UNCHANGED <<absence, replay, later>>

SpecHistory == Init /\ [][NextHistory]_vars

\* SpecAbsence: the same program, counting for each id the consecutive
\* batches it was absent from.  A batch counts when all six requests were
\* answered 200 and both loops ran to their ends.

\* A request was answered `resp`.
AbsenceFetch(resp) ==
    /\ all_ok' = (all_ok /\ resp = "200")
    /\ UNCHANGED <<present, missed>>

\* The entry m was processed by a loop iteration.
AbsenceEntry(m) ==
    /\ present' = IF IsTargetMatch(m) THEN present \cup {m.id} ELSE present
    /\ UNCHANGED <<all_ok, missed>>

\* The tick returns before the end of its loops: its batch does not count.
AbsenceAbort ==
    /\ all_ok' = TRUE
    /\ present' = {}
    /\ UNCHANGED missed

\* The tick returns at the end of its loops.
AbsenceTickOver ==
    /\ all_ok' = TRUE
    /\ present' = {}
    /\ missed' = [i \in TargetIds |->
                     IF ~all_ok THEN missed[i]
                     ELSE IF i \in present THEN 0
                     ELSE IF i \in DOMAIN previous_scores \cup announced_ft /\ missed[i] < 3
                     THEN missed[i] + 1
                     ELSE missed[i]]

NextAbsence ==
    \/ Tick /\ Quiet
    \/ GetRateLimited /\ Quiet
    \/ \E resp \in Responses, n \in 0 .. MaxBatch :
          FetchLive(resp, n) /\ AbsenceFetch(resp) /\ UNCHANGED <<history, replay, later>>
    \/ \E resp \in Responses, n \in 0 .. MaxBatch :
          FetchTarget(resp, n) /\ AbsenceFetch(resp) /\ UNCHANGED <<history, replay, later>>
    \/ FindChannel(TRUE) /\ Quiet
    \/ FindChannel(FALSE) /\ AbsenceAbort /\ UNCHANGED <<history, replay, later>>
    \/ \E m \in LiveMatches : GoalStep(m) /\ AbsenceEntry(m) /\ UNCHANGED <<history, replay, later>>
    \/ GoalLoopEnd /\ Quiet
    \/ \E m \in TargetMatches : FtStep(m) /\ AbsenceEntry(m) /\ UNCHANGED <<history, replay, later>>
    \/ FtLoopEnd /\ AbsenceTickOver /\ UNCHANGED <<history, replay, later>>
    \/ SendOk /\ Quiet
    \/ SendFail /\ AbsenceAbort /\ UNCHANGED <<history, replay, later>>

SpecAbsence == Init /\ [][NextAbsence]_vars

\* SpecReplay: the same program, in which a tick may have its batch
\* recorded, and the tick after a recorded one is answered the same batch:
\* lists of the same lengths, with the same entries in the same order.
\* A batch is recorded only while nothing is tracked yet; batches of more than
\* MaxBatch entries in all, and batches of ticks that found no channel, are
\* not recorded.

ReplayOff ==
    /\ mode' = "off"
    /\ rec_live' = <<>>
    /\ rec_target' = <<>>
    /\ rec_sizes' = <<0, 0>>

\* The tick starts: after a recorded tick the batch is fed again, otherwise
\* the new tick is recorded or not.
ReplayTick ==
    /\ mode' \in IF mode = "record" THEN {"replay"}
                 ELSE IF previous_scores = <<>> /\ announced_ft = {} THEN {"off", "record"}
                 ELSE {"off"}
    /\ UNCHANGED <<rec_live, rec_target, rec_sizes>>

\* The last request of a list is answered: the list has its length.
ReplayFetchLive ==
    /\ (mode = "replay" /\ pc' = "fetch_target") => live_left' = rec_sizes[1]
    /\ rec_sizes' = IF mode = "record" /\ pc' = "fetch_target"
                    THEN <<live_left', 0>>
                    ELSE rec_sizes
    /\ UNCHANGED <<mode, rec_live, rec_target>>

ReplayFetchTarget ==
    /\ (mode = "replay" /\ pc' = "find_channel") => target_left' = rec_sizes[2]
    /\ IF mode = "record" /\ pc' = "find_channel"
       THEN IF rec_sizes[1] + target_left' <= MaxBatch
            THEN /\ rec_sizes' = <<rec_sizes[1], target_left'>>
                 /\ UNCHANGED <<mode, rec_live, rec_target>>
            ELSE ReplayOff
       ELSE UNCHANGED replay

ReplayNoChannel ==
    IF mode = "off" THEN UNCHANGED replay ELSE ReplayOff

\* The goal loop processes m, the entry of live_matches at the position the
\* loop has reached.
ReplayGoalStep(m) ==
    LET k == rec_sizes[1] - live_left + 1 IN
    /\ (mode = "replay" /\ k <= Len(rec_live)) => m = rec_live[k]
    /\ rec_live' = IF mode = "record" THEN Append(rec_live, m) ELSE rec_live
    /\ UNCHANGED <<mode, rec_target, rec_sizes>>

ReplayFtStep(m) ==
    LET k == rec_sizes[2] - target_left + 1 IN
    /\ (mode = "replay" /\ k <= Len(rec_target)) => m = rec_target[k]
    /\ rec_target' = IF mode = "record" THEN Append(rec_target, m) ELSE rec_target
    /\ UNCHANGED <<mode, rec_live, rec_sizes>>

\* The tick returns: a batch fed again is forgotten.
ReplayTickOver ==
    IF mode = "replay" THEN ReplayOff ELSE UNCHANGED replay

NextReplay ==
    \/ Tick /\ ReplayTick /\ UNCHANGED <<history, absence, later>>
    \/ GetRateLimited /\ Quiet
    \/ \E resp \in Responses, n \in 0 .. MaxBatch :
          FetchLive(resp, n) /\ ReplayFetchLive /\ UNCHANGED <<history, absence, later>>
    \/ \E resp \in Responses, n \in 0 .. MaxBatch :
          FetchTarget(resp, n) /\ ReplayFetchTarget /\ UNCHANGED <<history, absence, later>>
    \/ FindChannel(TRUE) /\ Quiet
    \/ FindChannel(FALSE) /\ ReplayNoChannel /\ UNCHANGED <<history, absence, later>>
    \/ \E m \in LiveMatches : GoalStep(m) /\ ReplayGoalStep(m) /\ UNCHANGED <<history, absence, later>>
    \/ GoalLoopEnd /\ Quiet
    \/ \E m \in TargetMatches : FtStep(m) /\ ReplayFtStep(m) /\ UNCHANGED <<history, absence, later>>
    \/ FtLoopEnd /\ ReplayTickOver /\ UNCHANGED <<history, absence, later>>
    \/ SendOk /\ Quiet
    \/ SendFail /\ ReplayTickOver /\ UNCHANGED <<history, absence, later>>

SpecReplay == Init /\ [][NextReplay]_vars

\* SpecReady: the program from its construction: the on_ready handlers (one
\* per READY event of the gateway, a reconnect fires a new one) start
\* match_monitor, whose ticks then run as in Spec.

InitReady ==
    /\ InitTick
    /\ raw = <<>>
    /\ api_key = TRUE
    /\ starts = 0
    /\ sync_completed = FALSE
    /\ tasks_started = FALSE
    /\ ready_pc = [i \in Handlers |-> "none"]
    /\ monitors = 0
    /\ in_flight = 0

\* Loop.start(): launches the loop task; on a loop that is already running it
\* raises RuntimeError and launches nothing.
LoopStart(n) == IF n = 0 THEN 1 ELSE n

\* A match_monitor without its `except Exception`: the exception reaches the
\* loop, which stops.
MonitorExceptEscapes(n) == 0

\* `except Exception` of match_monitor: the exception is logged and does not
\* reach the loop, which keeps running.
MonitorExcept(n) == n

\* on_ready is called: a reconnect after the sync returns at once, and so does
\* a handler without football_api; otherwise the handler goes on to sync the
\* commands.
OnReady(i) ==
    /\ ready_pc[i] = "none"
    /\ ~sync_completed
    /\ api_key
    /\ ready_pc' = [ready_pc EXCEPT ![i] = "sync"]
    /\ UNCHANGED <<sync_completed, tasks_started, monitors, in_flight>>

\* The syncs of the handler are over: _sync_completed = True, then sleep(3).
OnReadySynced(i) ==
    /\ ready_pc[i] = "sync"
    /\ sync_completed' = TRUE
    /\ ready_pc' = [ready_pc EXCEPT ![i] = "sleep"]
    /\ UNCHANGED <<tasks_started, monitors, in_flight>>

\* An on_ready that starts match_monitor whatever _tasks_started says.
ShouldStartAlways(started) == TRUE

\* `if not _tasks_started`.
ShouldStart(started) == ~started

\* After the sleep: start match_monitor unless _tasks_started, and return.
OnReadyStart(i) ==
    /\ ready_pc[i] = "sleep"
    /\ ready_pc' = [ready_pc EXCEPT ![i] = "none"]
    /\ IF ShouldStart(tasks_started)
       THEN /\ monitors' = LoopStart(monitors)
            /\ tasks_started' = (monitors = 0)
       ELSE UNCHANGED <<monitors, tasks_started>>
    /\ UNCHANGED <<sync_completed, in_flight>>

\* An execution of the body starts (ends).
ReadyTick ==
    /\ monitors > 0
    /\ in_flight' = IF in_flight < 2 THEN in_flight + 1 ELSE in_flight
    /\ UNCHANGED <<sync_completed, tasks_started, ready_pc, monitors>>

ReadyTickOver ==
    /\ in_flight' = IF in_flight > 0 THEN in_flight - 1 ELSE in_flight
    /\ UNCHANGED <<sync_completed, tasks_started, ready_pc, monitors>>

\* The body ends in its `except Exception`.
ReadyExcept ==
    /\ in_flight' = IF in_flight > 0 THEN in_flight - 1 ELSE in_flight
    /\ monitors' = MonitorExcept(monitors)
    /\ UNCHANGED <<sync_completed, tasks_started, ready_pc>>

QuietTick == UNCHANGED <<store, tick_vars, base_hist, history, absence, replay, retry, order, parse, cmd, chan, fail, start>>
QuietReady == UNCHANGED <<history, absence, replay, ready, retry, order, parse, cmd, chan, fail, start>>

NextReady ==
    \/ \E i \in Handlers : OnReady(i) /\ QuietTick
    \/ \E i \in Handlers : OnReadySynced(i) /\ QuietTick
    \/ \E i \in Handlers : OnReadyStart(i) /\ QuietTick
    \/ Tick /\ ReadyTick /\ UNCHANGED <<history, absence, replay, retry, order, parse, cmd, chan, fail, start>>
    \/ GetRateLimited /\ QuietReady
    \/ \E resp \in Responses, n \in 0 .. MaxBatch : FetchLive(resp, n) /\ QuietReady
    \/ \E resp \in Responses, n \in 0 .. MaxBatch : FetchTarget(resp, n) /\ QuietReady
    \/ FindChannel(TRUE) /\ QuietReady
    \/ FindChannel(FALSE) /\ ReadyTickOver /\ UNCHANGED <<history, absence, replay, retry, order, parse, cmd, chan, fail, start>>
    \/ \E m \in LiveMatches : GoalStep(m) /\ QuietReady
    \/ GoalLoopEnd /\ QuietReady
    \/ \E m \in TargetMatches : FtStep(m) /\ QuietReady
    \/ FtLoopEnd /\ ReadyTickOver /\ UNCHANGED <<history, absence, replay, retry, order, parse, cmd, chan, fail, start>>
    \/ SendOk /\ QuietReady
    \/ SendFail /\ ReadyExcept /\ UNCHANGED <<history, absence, replay, retry, order, parse, cmd, chan, fail, start>>

SpecReady == InitReady /\ [][NextReady]_vars

\* SpecRetry: the same program, with the retry of _get followed through its
\* sleep and without a limit on the 429 answers to one request: `attempts`
\* counts them up to MaxAttempts and stays there.  The event loop keeps
\* running the tick, so some step is always taken.

\* _get: the request is answered 429 after MaxAttempts such answers already.
GetRateLimitedMore ==
    /\ pc \in {"fetch_live", "fetch_target"}
    /\ attempts = MaxAttempts
    /\ UNCHANGED <<store, tick_vars, base_hist>>

\* _get: after the 429 answer, sleep(60).
RetrySleep ==
    /\ ~sleeping
    /\ sleeping' = TRUE

\* _get: the sleep is over, `return await self._get(endpoint)` asks again.
RetryWake ==
    /\ sleeping
    /\ sleeping' = FALSE
    /\ UNCHANGED <<store, tick_vars, base_hist>>

\* A step of the tick other than the 429 answer: _get is not sleeping.
RetryAwake ==
    /\ ~sleeping
    /\ UNCHANGED sleeping

QuietRetry == UNCHANGED <<history, absence, replay, ready, order, parse, cmd, chan, fail, start>>

NextRetry ==
    \/ Tick /\ RetryAwake /\ QuietRetry
    \/ GetRateLimited /\ RetrySleep /\ QuietRetry
    \/ GetRateLimitedMore /\ RetrySleep /\ QuietRetry
    \/ RetryWake /\ QuietRetry
    \/ \E resp \in Responses, n \in 0 .. MaxBatch :
          FetchLive(resp, n) /\ RetryAwake /\ QuietRetry
    \/ \E resp \in Responses, n \in 0 .. MaxBatch :
          FetchTarget(resp, n) /\ RetryAwake /\ QuietRetry
    \/ \E found \in BOOLEAN : FindChannel(found) /\ RetryAwake /\ QuietRetry
    \/ \E m \in LiveMatches : GoalStep(m) /\ RetryAwake /\ QuietRetry
    \/ GoalLoopEnd /\ RetryAwake /\ QuietRetry
    \/ \E m \in TargetMatches : FtStep(m) /\ RetryAwake /\ QuietRetry
    \/ FtLoopEnd /\ RetryAwake /\ QuietRetry
    \/ SendOk /\ RetryAwake /\ QuietRetry
    \/ SendFail /\ RetryAwake /\ QuietRetry

SpecRetry == Init /\ [][NextRetry]_vars /\ WF_vars(NextRetry)

\* SpecOrder: the same program, with the history of the sends of the tick in
\* progress.

\* Kinds of announcement, in the order GOAL before FULL TIME.
GoalKind == 1
FtKind == 2

\* An iteration has run: if it led to a send, that send is the tick's last.
OrderGoalStep ==
    IF pc' = "send_goal"
    THEN /\ last_event' = <<match'.id, GoalKind>>
         /\ tick_goals' = tick_goals \cup {match'.id}
    ELSE UNCHANGED order

OrderFtStep ==
    IF pc' = "send_ft"
    THEN /\ last_event' = <<match'.id, FtKind>>
         /\ UNCHANGED tick_goals
    ELSE UNCHANGED order

OrderTickOver ==
    /\ last_event' = <<0, 0>>
    /\ tick_goals' = {}

QuietOrder == UNCHANGED <<history, absence, replay, ready, retry, parse, cmd, chan, fail, start>>

NextOrder ==
    \/ Tick /\ Quiet
    \/ GetRateLimited /\ Quiet
    \/ \E resp \in Responses, n \in 0 .. MaxBatch : FetchLive(resp, n) /\ Quiet
    \/ \E resp \in Responses, n \in 0 .. MaxBatch : FetchTarget(resp, n) /\ Quiet
    \/ FindChannel(TRUE) /\ Quiet
    \/ FindChannel(FALSE) /\ OrderTickOver /\ QuietOrder
    \/ \E m \in LiveMatches : GoalStep(m) /\ OrderGoalStep /\ QuietOrder
    \/ GoalLoopEnd /\ Quiet
    \/ \E m \in TargetMatches : FtStep(m) /\ OrderFtStep /\ QuietOrder
    \/ FtLoopEnd /\ OrderTickOver /\ QuietOrder
    \/ SendOk /\ Quiet
    \/ SendFail /\ OrderTickOver /\ QuietOrder

SpecOrder == Init /\ [][NextOrder]_vars

\* SpecParse: the parse loop of one call of get_matches_by_competition, over
\* every body of up to MaxRaw entries.

\* An entry of data['matches']: its 'id' (0: the key is missing), whether
\* homeTeam and awayTeam have their 'name', and score.fullTime.home (-1: null).
RawEntries == [id : {0} \cup TargetIds, named : BOOLEAN, home : {-1, 1}]

\* Sequences of raw entries of length n.
RawLists(n) == [1 .. n -> RawEntries]

\* Match(id=match_data['id'], home=match_data['homeTeam']['name'], ...)
\* raises KeyError.
ParseRaises(e) == e.id = 0 \/ ~e.named

\* The Match built from a well-formed entry: `fulltime.get('home') or 0`, and
\* the defaults for what the entry does not hold.
ParseMatch(e) == Match(e.id, IF e.home = -1 THEN 0 ELSE e.home, 0, "SCHEDULED")

\* A parse loop whose except gives up the batch.
OnParseErrorAbort(ms) == <<>>

\* `except Exception: ... continue`: the list built so far is kept.
OnParseError(ms) == ms

InitParse ==
    /\ InitTick
    /\ raw \in UNION {RawLists(n) : n \in 0 .. MaxRaw}
    /\ api_key = TRUE
    /\ starts = 1
    /\ sync_completed = TRUE
    /\ tasks_started = TRUE
    /\ ready_pc = [i \in Handlers |-> "none"]
    /\ monitors = 1
    /\ in_flight = 0

\* One iteration of `for match_data in data['matches']`.
ParseStep ==
    /\ parse_at <= Len(raw)
    /\ parse_at' = parse_at + 1
    /\ matches' = IF ParseRaises(raw[parse_at])
                  THEN OnParseError(matches)
                  ELSE Append(matches, ParseMatch(raw[parse_at]))
    /\ UNCHANGED raw

NextParse ==
    ParseStep /\ UNCHANGED <<store, tick_vars, base_hist, history, absence, replay,
                             ready, retry, order, cmd, chan, fail, start>>

SpecParse == InitParse /\ [][NextParse]_vars

\* SpecCommands: the same program, with the handler of a slash command
\* running beside the ticks; both use the one FootballDataAPI object.

Commands == {"live", "laliga", "epl", "ucl", "upcoming", "ping"}

\* Feed requests the handler of a command makes: get_live_matches and
\* /upcoming ask every competition, a league command asks its league, /ping
\* asks nothing.
CommandRequests(c) ==
    CASE c \in {"live", "upcoming"} -> NumCompetitions
      [] c \in {"laliga", "epl", "ucl"} -> 1
      [] OTHER -> 0

\* Matches a handler shows in its embed.
ShownMatches == {Match(i, MaxHome, MaxAway, "IN_PLAY") : i \in TargetIds}

\* A handler that calls detect_goals on a match it shows.
CommandStoreDetects(ps, m) == DetectGoalsStore(ps, m)

\* previous_scores after a handler has put the match m into its embed: the
\* handlers read the fields of the match and call nothing of the cache.
CommandStore(ps, m) == ps

\* The command c is invoked.
Command(c) ==
    /\ cmd_pc = "none"
    /\ cmd_left' = CommandRequests(c)
    /\ cmd_pc' = IF CommandRequests(c) = 0 THEN "reply" ELSE "fetch"
    /\ UNCHANGED <<store, tick_vars, base_hist>>

\* The requests of the handler are answered.
CommandFetch ==
    /\ cmd_pc = "fetch"
    /\ cmd_left' = 0
    /\ cmd_pc' = "reply"
    /\ UNCHANGED <<store, tick_vars, base_hist>>

\* The handler builds its embed, in which the match m is shown, and sends it.
CommandReply(m) ==
    /\ cmd_pc = "reply"
    /\ cmd_pc' = "none"
    /\ previous_scores' = CommandStore(previous_scores, m)
    /\ UNCHANGED <<announced_ft, cmd_left, tick_vars, base_hist>>

QuietCommands == UNCHANGED <<history, absence, replay, ready, retry, order, parse, chan, fail, start>>

NextCommands ==
    \/ \E c \in Commands : Command(c) /\ QuietCommands
    \/ CommandFetch /\ QuietCommands
    \/ \E m \in ShownMatches : CommandReply(m) /\ QuietCommands
    \/ Tick /\ Quiet
    \/ GetRateLimited /\ Quiet
    \/ \E resp \in Responses, n \in 0 .. MaxBatch : FetchLive(resp, n) /\ Quiet
    \/ \E resp \in Responses, n \in 0 .. MaxBatch : FetchTarget(resp, n) /\ Quiet
    \/ \E found \in BOOLEAN : FindChannel(found) /\ Quiet
    \/ \E m \in LiveMatches : GoalStep(m) /\ Quiet
    \/ GoalLoopEnd /\ Quiet
    \/ \E m \in TargetMatches : FtStep(m) /\ Quiet
    \/ FtLoopEnd /\ Quiet
    \/ SendOk /\ Quiet
    \/ SendFail /\ Quiet

SpecCommands == Init /\ [][NextCommands]_vars

\* SpecChannel: the same program, remembering whether the last tick that
\* had fetched entries returned for lack of a channel.

ChannelMissing ==
    no_channel' = (live_left + target_left > 0)

\* A tick that had a channel returns.
ChannelTickOver ==
    no_channel' = FALSE

QuietChannel == UNCHANGED <<history, absence, replay, ready, retry, order, parse, cmd, fail, start>>

NextChannel ==
    \/ Tick /\ Quiet
    \/ GetRateLimited /\ Quiet
    \/ \E resp \in Responses, n \in 0 .. MaxBatch : FetchLive(resp, n) /\ Quiet
    \/ \E resp \in Responses, n \in 0 .. MaxBatch : FetchTarget(resp, n) /\ Quiet
    \/ FindChannel(TRUE) /\ Quiet
    \/ FindChannel(FALSE) /\ ChannelMissing /\ QuietChannel
    \/ \E m \in LiveMatches : GoalStep(m) /\ Quiet
    \/ GoalLoopEnd /\ Quiet
    \/ \E m \in TargetMatches : FtStep(m) /\ Quiet
    \/ FtLoopEnd /\ ChannelTickOver /\ QuietChannel
    \/ SendOk /\ Quiet
    \/ SendFail /\ ChannelTickOver /\ QuietChannel

SpecChannel == Init /\ [][NextChannel]_vars

\* SpecFail: the same program, remembering how many fetched entries a tick
\* whose send raised had not yet iterated.

FailTick ==
    dropped' = 0

FailDropped ==
    dropped' = live_left + target_left

QuietFail == UNCHANGED <<history, absence, replay, ready, retry, order, parse, cmd, chan, start>>

NextFail ==
    \/ Tick /\ FailTick /\ QuietFail
    \/ GetRateLimited /\ Quiet
    \/ \E resp \in Responses, n \in 0 .. MaxBatch : FetchLive(resp, n) /\ Quiet
    \/ \E resp \in Responses, n \in 0 .. MaxBatch : FetchTarget(resp, n) /\ Quiet
    \/ \E found \in BOOLEAN : FindChannel(found) /\ Quiet
    \/ \E m \in LiveMatches : GoalStep(m) /\ Quiet
    \/ GoalLoopEnd /\ Quiet
    \/ \E m \in TargetMatches : FtStep(m) /\ Quiet
    \/ FtLoopEnd /\ Quiet
    \/ SendOk /\ Quiet
    \/ SendFail /\ FailDropped /\ QuietFail

SpecFail == Init /\ [][NextFail]_vars

\* SpecStart: SpecReady with or without the API key, counting the calls of
\* match_monitor.start(); the feed returns at most one match per request.

InitStart ==
    /\ InitTick
    /\ raw = <<>>
    /\ api_key \in BOOLEAN
    /\ starts = 0
    /\ sync_completed = FALSE
    /\ tasks_started = FALSE
    /\ ready_pc = [i \in Handlers |-> "none"]
    /\ monitors = 0
    /\ in_flight = 0

\* The handler is at `if not _tasks_started`: start() is called or not.
StartCount ==
    /\ starts' = IF ShouldStart(tasks_started) /\ starts < 2 THEN starts + 1 ELSE starts
    /\ UNCHANGED api_key

QuietStartTick == UNCHANGED <<store, tick_vars, base_hist, history, absence, replay,
                              retry, order, parse, cmd, chan, fail>>
QuietStart == UNCHANGED <<history, absence, replay, retry, order, parse, cmd, chan, fail, start>>

NextStart ==
    \/ \E i \in Handlers : OnReady(i) /\ QuietStartTick /\ UNCHANGED start
    \/ \E i \in Handlers : OnReadySynced(i) /\ QuietStartTick /\ UNCHANGED start
    \/ \E i \in Handlers : OnReadyStart(i) /\ StartCount /\ QuietStartTick
    \/ Tick /\ ReadyTick /\ QuietStart
    \/ GetRateLimited /\ QuietStart /\ UNCHANGED ready
    \/ \E resp \in Responses, n \in 0 .. 1 :
          FetchLive(resp, n) /\ QuietStart /\ UNCHANGED ready
    \/ \E resp \in Responses, n \in 0 .. 1 :
          FetchTarget(resp, n) /\ QuietStart /\ UNCHANGED ready
    \/ FindChannel(TRUE) /\ QuietStart /\ UNCHANGED ready
    \/ FindChannel(FALSE) /\ ReadyTickOver /\ QuietStart
    \/ \E m \in LiveMatches : GoalStep(m) /\ QuietStart /\ UNCHANGED ready
    \/ GoalLoopEnd /\ QuietStart /\ UNCHANGED ready
    \/ \E m \in TargetMatches : FtStep(m) /\ QuietStart /\ UNCHANGED ready
    \/ FtLoopEnd /\ ReadyTickOver /\ QuietStart
    \/ SendOk /\ QuietStart /\ UNCHANGED ready
    \/ SendFail /\ ReadyExcept /\ QuietStart

SpecStart == InitStart /\ [][NextStart]_vars

\* ------------------------------------------------------------------ claims

\* A goal (full-time) send is attempted in this step.
GoalEmitted == pc = "goal_loop" /\ pc' = "send_goal"
FtEmitted == pc = "ft_loop" /\ pc' = "send_ft"
Sending == pc \in {"send_goal", "send_ft"}

\* The score of m is lower than `old` on some side.
Lower(m, old) == m.home < old[1] \/ m.away < old[2]

\* The score of m is higher than `old` on some side.
Higher(m, old) == m.home > old[1] \/ m.away > old[2]

\* Exactly one side of m's score is higher than in `old`, the other is the same.
OneSideHigher(m, old) ==
    \/ m.home > old[1] /\ m.away = old[2]
    \/ m.home = old[1] /\ m.away > old[2]

Tracked(m) == m.id \in DOMAIN previous_scores

\* C1: at most once. No goal send carries the fingerprint (match id, home,
\* away) of an earlier goal send (the watched one is any earlier one), and no
\* match gets a second full-time send.
C1_AtMostOnce ==
    [][/\ GoalEmitted => Fingerprint(match') # watched
       /\ FtEmitted => ft_sent[match'.id] = 0]_vars

\* C2: regression guard. An iteration over a tracked match whose home or away
\* score is lower than its baseline sends no goal announcement and makes the
\* lower score the baseline.
C2_RegressionGuard ==
    [][\A m \in LiveMatches :
          (GoalStep(m) /\ IsTargetMatch(m) /\ Tracked(m) /\ Lower(m, previous_scores[m.id]))
              => (~GoalEmitted /\ previous_scores'[m.id] = CurrentScore(m))]_vars

\* C3: no baseline flood. The iteration that sees a match for the first time
\* sends nothing and records its score, whatever the score; an iteration over
\* a tracked match with one side of the score increased sends one goal
\* announcement, carrying the new score pair, and the send itself leads to no
\* further announcement of it.
C3_NoBaselineFlood ==
    [][/\ \A m \in LiveMatches :
             (GoalStep(m) /\ IsTargetMatch(m)) =>
                 /\ ~Tracked(m) =>
                        /\ ~GoalEmitted /\ ~Sending'
                        /\ previous_scores'[m.id] = CurrentScore(m)
                 /\ (Tracked(m) /\ OneSideHigher(m, previous_scores[m.id])) =>
                        /\ GoalEmitted
                        /\ match' = m
                        /\ previous_scores'[m.id] = CurrentScore(m)
       /\ pc = "send_goal" => pc' \in {"goal_loop", "idle"}]_vars

\* C3's case: the goal announcement for 2-1 of a match whose baseline was 1-1
\* is being sent.
C3_Witness ==
    /\ pc = "send_goal"
    /\ old_score = <<1, 1>>
    /\ CurrentScore(match) = <<2, 1>>
    /\ previous_scores[match.id] = <<2, 1>>

\* C4: the tick in which a match id is first processed sends nothing for it,
\* neither a goal nor a full-time announcement.
C4_FirstSightingSilent == Sending => match.id \notin first_seen

\* C5: full time once. A FINISHED entry of a match not yet announced sends the
\* full-time announcement and a FINISHED entry of an announced match sends
\* nothing; announced_ft only grows, so no match gets a second one.
C5_FullTimeOnce ==
    [][/\ pc = "ft_loop" =>
             \A m \in TargetMatches :
                (m.status = "FINISHED" /\ FtStep(m)) =>
                    IF m.id \in announced_ft
                    THEN ~FtEmitted /\ ft_sent' = ft_sent
                    ELSE FtEmitted /\ match' = m /\ ft_sent'[m.id] = 1
       /\ announced_ft \subseteq announced_ft'
       /\ \A i \in TargetIds :
             /\ ft_sent'[i] <= 1
             /\ ft_sent'[i] = 1 <=> i \in announced_ft']_vars

\* C5's case: a match tracked while live has had its one full-time
\* announcement, and this tick has met it FINISHED again and sent nothing.
C5_Witness ==
    /\ pc = "ft_loop"
    /\ ft_skipped = 1
    /\ ft_sent[1] = 1
    /\ 1 \in DOMAIN previous_scores

\* C7: outage safety. While no request of the tick has been answered 200 the
\* fetched lists are empty, and no step changes previous_scores or
\* announced_ft or attempts a send.
C7_OutageSafety ==
    [][(~fetch_ok /\ ~fetch_ok') =>
          /\ store' = store
          /\ ~Sending'
          /\ live_left' = 0 /\ target_left' = 0]_vars

\* C7's case: a tick whose six requests all failed has got to the end of its
\* loops, with a match tracked and a full time announced before it.
C7_Witness ==
    /\ pc = "ft_loop"
    /\ ~fetch_ok
    /\ previous_scores # <<>>
    /\ announced_ft # {}

\* C9: record before dispatch. Whenever a send is attempted the store already
\* holds the announced state; no outcome of the send changes the store; and a
\* later entry that reports the recorded state sends nothing.
C9_RecordBeforeDispatch ==
    [][/\ pc' = "send_goal" =>
             /\ match'.id \in DOMAIN previous_scores'
             /\ previous_scores'[match'.id] = CurrentScore(match')
       /\ pc' = "send_ft" => match'.id \in announced_ft'
       /\ Sending => store' = store
       /\ pc = "goal_loop" =>
             \A m \in LiveMatches :
                (Tracked(m) /\ previous_scores[m.id] = CurrentScore(m) /\ GoalStep(m))
                    => ~GoalEmitted
       /\ pc = "ft_loop" =>
             \A m \in TargetMatches :
                (m.id \in announced_ft /\ FtStep(m)) => ~FtEmitted]_vars

\* C9's case: the send of a goal announcement has raised, the tick is over and
\* the announced score is still the baseline.
C9_Witness ==
    /\ pc = "idle"
    /\ lost.status = "IN_PLAY"
    /\ lost.id \in DOMAIN previous_scores
    /\ previous_scores[lost.id] = CurrentScore(lost)

\* Statuses of a match in progress (the canonical phase Live).
LiveStatuses == {"IN_PLAY", "PAUSED"}

\* C10: timely detection. An iteration over an entry that reports a match in
\* progress, tracked since an earlier tick, with a higher score than its
\* baseline sends the goal announcement for the new score pair, unless it was
\* announced before (here: unless some goal announcement of the match was sent
\* before).
C10_TimelyDetection ==
    [][/\ \A m \in LiveMatches :
             (GoalStep(m) /\ IsTargetMatch(m) /\ Tracked(m) /\ m.id \notin first_seen
                 /\ Higher(m, previous_scores[m.id]) /\ m.id \notin goal_sent)
                 => (GoalEmitted /\ match' = m)
       /\ \A m \in TargetMatches :
             (FtStep(m) /\ m.status \in LiveStatuses /\ Tracked(m) /\ m.id \notin first_seen
                 /\ Higher(m, previous_scores[m.id]) /\ m.id \notin goal_sent)
                 => (pc' = "send_goal" /\ match' = m)]_vars

\* C8: eviction. A match id absent from 3 consecutive complete batches is in
\* neither previous_scores nor announced_ft any more, and the iteration in
\* which it reappears sends nothing for it.
C8_Eviction ==
    [][/\ \A i \in TargetIds :
             missed'[i] >= 3 => i \notin DOMAIN previous_scores' \cup announced_ft'
       /\ \A m \in LiveMatches :
             (GoalStep(m) /\ IsTargetMatch(m) /\ missed[m.id] >= 3) => ~GoalEmitted
       /\ \A m \in TargetMatches :
             (FtStep(m) /\ missed[m.id] >= 3) => ~FtEmitted]_vars

\* C6: idempotence. While the batch of the previous tick is fed again, no send
\* is attempted and previous_scores and announced_ft stay as the previous tick
\* left them.
C6_Idempotence ==
    [][mode = "replay" => (store' = store /\ ~Sending')]_vars

\* C11: ticks do not overlap. At most one match_monitor loop task runs and at
\* most one execution of its body is in flight, whatever on_ready handlers
\* run beside it; the tick is in progress exactly while that execution is.
C11_NoOverlap ==
    /\ monitors <= 1
    /\ in_flight <= 1
    /\ (in_flight = 1) <=> (pc # "idle")
    /\ in_flight = 1 => monitors = 1

\* C11's case: a tick is sending a goal announcement while a second on_ready
\* handler, entered before the first had finished its sync, is still running.
C11_Witness ==
    /\ pc = "send_goal"
    /\ in_flight = 1
    /\ tasks_started
    /\ \E i \in Handlers : ready_pc[i] = "sleep"

\* C12: no failure is fatal. Once match_monitor has been started its loop task
\* keeps running whatever its ticks met; between ticks the next tick can fire;
\* and a tick none of whose requests was answered 200 sends nothing.
C12_NeverFatal ==
    /\ tasks_started => monitors = 1
    /\ (tasks_started /\ pc = "idle") => ENABLED (Tick /\ ReadyTick)
    /\ (pc # "idle" /\ ~fetch_ok) => ~Sending

\* C12's case: a send has raised, the tick is over and the loop task is still
\* running.
C12_Witness ==
    /\ pc = "idle"
    /\ lost # NoMatch
    /\ monitors = 1
    /\ in_flight = 0

\* C13: bounded retry and tick termination. A tick that has started its
\* requests returns, whatever the requests are answered.
C13_TickTerminates == (pc = "fetch_live") ~> (pc = "idle")

\* Position of an announcement in the order by ascending match id, then GOAL
\* before FULL TIME.
EventRank(e) == 2 * e[1] + e[2]

\* C14: event order within one poll. No send of a tick comes before a send of
\* the same tick that is earlier in the order by ascending match id, then GOAL
\* before FULL TIME.
C14_EventOrder ==
    [][/\ GoalEmitted => EventRank(last_event) <= EventRank(<<match'.id, GoalKind>>)
       /\ FtEmitted => EventRank(last_event) <= EventRank(<<match'.id, FtKind>>)]_vars

\* C15: duplicate ids in one batch. A tick attempts at most one goal send for
\* one match id.
C15_OneGoalPerId ==
    [][GoalEmitted => match'.id \notin tick_goals]_vars

\* Both sides of m's score are higher than in `old`, or one is higher by more
\* than 1 and the other is not lower.
Skipped(m, old) ==
    /\ m.home >= old[1]
    /\ m.away >= old[2]
    /\ (m.home - old[1]) + (m.away - old[2]) >= 2

\* C16: skipped updates collapse. An iteration over a tracked match whose
\* score has gone up by two goals or more since its baseline attempts one goal
\* send, with the final score pair, and makes that pair the baseline; the send
\* is followed by the next entry or the end of the tick, not by a send for a
\* score in between.
C16_SkippedUpdatesCollapse ==
    [][/\ pc = "goal_loop" =>
             \A m \in LiveMatches :
                (IsTargetMatch(m) /\ Tracked(m) /\ Skipped(m, OldScore(previous_scores, m))
                    /\ GoalStep(m))
                    => /\ GoalEmitted
                       /\ match' = m
                       /\ old_score' = previous_scores[m.id]
                       /\ previous_scores'[m.id] = CurrentScore(m)
       /\ (pc = "send_goal" /\ Skipped(match, old_score)) =>
             /\ pc' \in {"goal_loop", "idle"}
             /\ previous_scores' = previous_scores]_vars

\* C16's case: the goal announcement for 2-1 of a match whose baseline was 0-0
\* is being sent.
C16_Witness ==
    /\ pc = "send_goal"
    /\ old_score = <<0, 0>>
    /\ CurrentScore(match) = <<2, 1>>
    /\ previous_scores[match.id] = <<2, 1>>

\* C17: the baseline tracks the last snapshot. After an iteration over an
\* entry of a match tracked since an earlier tick, in either loop, the score
\* in previous_scores is the entry's.
C17_BaselineIsLastSnapshot ==
    [][/\ pc = "goal_loop" =>
             \A m \in LiveMatches :
                (IsTargetMatch(m) /\ Tracked(m) /\ m.id \notin first_seen /\ GoalStep(m))
                    => previous_scores'[m.id] = CurrentScore(m)
       /\ pc = "ft_loop" =>
             \A m \in TargetMatches :
                (Tracked(m) /\ m.id \notin first_seen /\ FtStep(m))
                    => previous_scores'[m.id] = CurrentScore(m)]_vars

WellFormed(e) == ~ParseRaises(e)

\* The well-formed entries among the first n of the body, in their order.
WellFormedPrefix(n) == SelectSeq(SubSeq(raw, 1, n), WellFormed)

\* C18: a malformed entry is skipped. At every point of the parse loop the
\* list built so far holds the Match of each well-formed entry iterated over,
\* in the order of the body, and nothing else.
C18_MalformedSkipped ==
    LET wf == WellFormedPrefix(parse_at - 1) IN
    /\ Len(matches) = Len(wf)
    /\ \A k \in 1 .. Len(wf) : matches[k] = ParseMatch(wf[k])

\* C18's case: the loop has gone through a body of three entries whose second
\* is malformed, and has returned the first and the third.
C18_Witness ==
    /\ Len(raw) = 3
    /\ parse_at = 4
    /\ ~ParseRaises(raw[1]) /\ ParseRaises(raw[2]) /\ ~ParseRaises(raw[3])
    /\ matches = <<ParseMatch(raw[1]), ParseMatch(raw[3])>>
    /\ raw[1].id # raw[3].id

\* C19: single writer. No step of a slash command's handler changes
\* previous_scores or announced_ft, whatever the tick is doing beside it; the
\* steps that change them are iterations of the two loops of the tick.
C19_SingleWriter ==
    [][IF cmd_pc' # cmd_pc
       THEN previous_scores' = previous_scores /\ announced_ft' = announced_ft
       ELSE \/ pc \in {"goal_loop", "ft_loop"}
            \/ previous_scores' = previous_scores /\ announced_ft' = announced_ft]_vars

\* C19's case: a handler that has fetched the feed is about to reply while a
\* tick, with matches tracked and announced, is in the middle of a send.
C19_Witness ==
    /\ cmd_pc = "reply"
    /\ pc = "send_goal"
    /\ previous_scores # <<>>
    /\ announced_ft # {}

\* C20: a tick without a channel leaves the store as it was. The step that
\* finds no channel ends the tick and no step of a tick up to it changes
\* previous_scores or announced_ft; so in the tick after it an unannounced
\* FINISHED match still gets its full-time send, and a tracked match whose
\* score is above its baseline still gets its goal send.
C20_NoChannelNoChange ==
    [][/\ FindChannel(FALSE) => (pc' = "idle" /\ store' = store)
       /\ pc \in {"idle", "fetch_live", "fetch_target", "find_channel"} => store' = store
       /\ (no_channel /\ pc = "ft_loop") =>
             \A m \in TargetMatches :
                (m.status = "FINISHED" /\ m.id \notin announced_ft /\ FtStep(m))
                    => (FtEmitted /\ match' = m)
       /\ (no_channel /\ pc = "goal_loop") =>
             \A m \in LiveMatches :
                (IsTargetMatch(m) /\ Tracked(m) /\ Higher(m, OldScore(previous_scores, m))
                    /\ GoalStep(m))
                    => (GoalEmitted /\ match' = m)]_vars

\* C20's case: the tick before this one fetched entries and found no channel;
\* this one has a channel and is sending a goal announcement for a match
\* tracked before, after which a full time is still to be looked at.
C20_Witness ==
    /\ no_channel
    /\ pc = "send_goal"
    /\ target_left > 0
    /\ old_score # CurrentScore(match)

\* The entry of id i in previous_scores and announced_ft is what it was.
SameEntry(i) ==
    /\ OldScore(previous_scores', Match(i, 0, 0, "NONE")) =
          OldScore(previous_scores, Match(i, 0, 0, "NONE"))
    /\ (i \in announced_ft') = (i \in announced_ft)

\* C21: a send that raises. The step in which a send raises ends the tick,
\* drops the entries not yet iterated and changes nothing in previous_scores
\* and announced_ft; an iteration changes the entry of the match it is about
\* and of no other, and no other step changes any: so what the dropped entries
\* are about is as the tick found it.
C21_SendFailFrame ==
    [][/\ SendFail =>
             /\ pc' = "idle" /\ live_left' = 0 /\ target_left' = 0
             /\ store' = store
             /\ lost' = match
       /\ (pc = "goal_loop" /\ store' # store) =>
             \A m \in LiveMatches :
                GoalStep(m) => \A i \in TargetIds \ {m.id} : SameEntry(i)
       /\ (pc = "ft_loop" /\ store' # store) =>
             \A m \in TargetMatches :
                FtStep(m) => \A i \in TargetIds \ {m.id} : SameEntry(i)
       /\ pc \notin {"goal_loop", "ft_loop"} => store' = store]_vars

\* C21's case: the send of a goal announcement has raised and ended a tick
\* that had an entry of each list still to iterate over.
C21_Witness ==
    /\ pc = "idle"
    /\ lost.status = "IN_PLAY"
    /\ dropped = MaxBatch + 1

\* C22: match_monitor.start() is called at most once, whatever on_ready
\* handlers run and however they overlap, and never without the API key; it
\* has been called exactly when _tasks_started is set.
C22_StartedOnce ==
    /\ starts <= 1
    /\ ~api_key => (starts = 0 /\ monitors = 0 /\ ~sync_completed)
    /\ (starts = 1) <=> tasks_started
    /\ monitors = starts

\* C22's case: start() has been called once, by the first handler, while a
\* second handler that entered during the first one's sync is in its sleep.
C22_Witness ==
    /\ starts = 1
    /\ tasks_started
    /\ pc = "idle"
    /\ \E i \in Handlers : ready_pc[i] = "sleep"

====
